---- MODULE Spec2Model ----
(***************************************************************************)
(* A state-machine model of the XBee driver of QtXBee, src/qtxb/xbee.cpp:  *)
(* the command session (sendATCommandAsync, sendATCommandSync), the serial *)
(* set-up (setSerialPort, initSerialConnection, startupCheck), the         *)
(* deframer (readData), the dispatcher (processPacket) and the AT-response *)
(* handler (processATCommandRespone).                                      *)
(*                                                                         *)
(* Bytes are the integers 0..255, byte arrays are sequences of bytes.      *)
(* The frame codecs (atcommandresponseframe.h, atcommandframe.h, ...) and  *)
(* the class declaration (xbee.h, global.h) are not part of xbee.cpp; the  *)
(* few facts the model needs from them are stated where they are used.     *)
(***************************************************************************)
EXTENDS Integers, Sequences, FiniteSets, TLC

VARIABLES
    m_serial,            \* "NULL" or "port": the QSerialPort the driver owns
    isOpen,              \* m_serial->isOpen()
    readyReadConnected,  \* readyRead() of m_serial is connected to readData()
    signalsBlocked,      \* m_serial->signalsBlocked()
    xbeeFound,           \* the connected flag
    m_mode,              \* "TransparentMode" or "API1Mode"
    m_frameIdCounter,    \* the next frame id
    buffer,              \* the deframer's byte buffer
    props,               \* m_dh .. m_cr, m_ni: addressing property -> value
    wire,                \* bytes that arrived on the port and were not read yet
    op,                  \* the operation that ran last
    emitted,             \* the signals the last operation emitted, in order
    dispatched,          \* the packets the last operation gave to processPacket
    written,             \* the commands the last operation wrote to the port
    assigned,            \* the frame ids the last operation assigned
    ret,                 \* what the last operation returned
    hs,                  \* what the last startupCheck did, step by step
    last,                \* what the last readData started from and read
    nAssigned,           \* how many frame ids were assigned since construction
    nFrames,             \* how many frames the device sent since construction
    aborted,             \* the process died (a null dereference, an assertion)
    charSigned           \* the build's plain char is signed

vars == << m_serial, isOpen, readyReadConnected, signalsBlocked, xbeeFound,
           m_mode, m_frameIdCounter, buffer, props, wire, op, emitted, dispatched,
           written, assigned, ret, hs, last, nAssigned, nFrames, aborted,
           charSigned >>

(***************************************************************************)
(* Bounds of the model.                                                    *)
(***************************************************************************)
\* Frame ids assigned in one behaviour of the command-session specification.
MaxAssigned == 257
\* Frames the device sends in one behaviour.
MaxFrames == 2
\* Frame ids assigned in one behaviour of the handshake specification.
MaxSyncIds == 4

(***************************************************************************)
(* Byte arrays.                                                            *)
(***************************************************************************)
Byte == 0..255

RECURSIVE Sum(_)
Sum(s) == IF s = <<>> THEN 0
          ELSE IF Len(s) = 1 THEN s[1]
          ELSE Sum(SubSeq(s, 1, Len(s) \div 2))
                 + Sum(SubSeq(s, Len(s) \div 2 + 1, Len(s)))

\* QByteArray::toHex(): two hexadecimal digits per byte, as digit values.
RECURSIVE toHex(_)
toHex(d) == IF d = <<>> THEN <<>>
            ELSE << d[1] \div 16, d[1] % 16 >> \o toHex(Tail(d))

IntMax == 2147483647

\* The digits of h read in base 16 on top of acc; -1 once the value no longer
\* fits an int (QString::toInt / QByteArray::toInt range check).
RECURSIVE ParseHex(_, _)
ParseHex(h, acc) ==
    IF h = <<>> THEN acc
    ELSE IF acc = -1 \/ acc > (IntMax - h[1]) \div 16 THEN -1
    ELSE ParseHex(Tail(h), acc * 16 + h[1])

\* toInt(&ok, 16) of a hexadecimal string: ok is false, and the value 0, for
\* an empty string and for a value outside the int range.
toInt(h) ==
    IF h = <<>> \/ ParseHex(h, 0) = -1 THEN [ok |-> FALSE, val |-> 0]
    ELSE [ok |-> TRUE, val |-> ParseHex(h, 0)]

(***************************************************************************)
(* The frame codec, as far as xbee.cpp relies on it.  An API frame is      *)
(* 7E lenHigh lenLow type ... checksum; an AT command response is          *)
(* 7E lenHigh lenLow 88 frameId c1 c2 status data... checksum.             *)
(***************************************************************************)
StartDelimiter == 126

ATCommandResponseType == 136
ModemStatusType == 138
TransmitStatusType == 139
RXIndicatorType == 144
ExplicitRxIndicatorType == 145
NodeIdentificationIndicatorType == 149
RemoteATCommandResponseType == 151

StatusOk == 0
StatusError == 1

NumericProps == {"DH", "DL", "MY", "MP", "NC", "SH", "SL",
                 "SE", "DE", "CI", "TO", "NP", "DD", "CR"}
AddressingProps == NumericProps \cup {"NI"}
Commands == AddressingProps \cup {"ND", "AP", "HV"}

CommandCode ==
    [c \in Commands |->
        CASE c = "DH" -> <<68, 72>> [] c = "DL" -> <<68, 76>>
          [] c = "MY" -> <<77, 89>> [] c = "MP" -> <<77, 80>>
          [] c = "NC" -> <<78, 67>> [] c = "SH" -> <<83, 72>>
          [] c = "SL" -> <<83, 76>> [] c = "NI" -> <<78, 73>>
          [] c = "SE" -> <<83, 69>> [] c = "DE" -> <<68, 69>>
          [] c = "CI" -> <<67, 73>> [] c = "TO" -> <<84, 79>>
          [] c = "NP" -> <<78, 80>> [] c = "DD" -> <<68, 68>>
          [] c = "CR" -> <<67, 82>> [] c = "ND" -> <<78, 68>>
          [] c = "AP" -> <<65, 80>> [] c = "HV" -> <<72, 86>>]

Checksum(body) == 255 - (Sum(body) % 256)

\* The bytes of an API frame whose type-and-payload part is body.
Frame(body) ==
    << StartDelimiter, Len(body) \div 256, Len(body) % 256 >>
        \o body \o << Checksum(body) >>

\* The AT command response the device sends for command c.
ATResponse(fid, c, status, d) ==
    Frame(<< ATCommandResponseType, fid >> \o CommandCode[c] \o << status >> \o d)

\* ATCommandResponseFrame::atCommand(): the command named by bytes 5 and 6.
atCommand(p) ==
    IF Len(p) >= 7 /\ \E c \in Commands : CommandCode[c] = << p[6], p[7] >>
    THEN CHOOSE c \in Commands : CommandCode[c] = << p[6], p[7] >>
    ELSE "unknown"

\* ATCommandResponseFrame::commandStatus(): byte 7.
commandStatus(p) == IF Len(p) >= 8 THEN p[8] ELSE StatusError

\* ATCommandResponseFrame::data(): the bytes between the status and the checksum.
data(p) == IF Len(p) >= 10 THEN SubSeq(p, 9, Len(p) - 1) ELSE <<>>

(***************************************************************************)
(* readData, lines 516-545: the deframer, as functions of the buffer.      *)
(***************************************************************************)
\* A mutation of the terminator test: a carriage return anywhere ends a line.
endsWithCRAnywhere(b) == \E i \in 1..Len(b) : b[i] = 13

\* buffer.endsWith(13), line 525.
endsWithCR(b) == Len(b) > 0 /\ b[Len(b)] = 13

\* A mutation of the garbage loop: only one leading byte is dropped.
RemoveGarbageOnce(b) ==
    IF b # <<>> /\ b[1] # StartDelimiter THEN Tail(b) ELSE b

\* Lines 532-534: leading bytes are removed until the first is 0x7E or the
\* buffer is empty; what is left starts at the first 0x7E of b.
RemoveGarbage(b) ==
    IF \E i \in 1..Len(b) : b[i] = StartDelimiter
    THEN SubSeq(b, CHOOSE i \in 1..Len(b) :
                      /\ b[i] = StartDelimiter
                      /\ \A j \in 1..(i - 1) : b[j] # StartDelimiter,
                Len(b))
    ELSE <<>>

\* buffer.at(2) as the build's plain char.
CharAt(b, i, signed) == IF signed /\ b[i + 1] >= 128 THEN b[i + 1] - 256
                        ELSE b[i + 1]

\* Line 536: unsigned length = buffer.at(2)+4, as the int that left() and
\* remove() take it for (the same 32 bits).
FrameLength(b, signed) == CharAt(b, 2, signed) + 4

\* Line 537: (unsigned char)buffer.size() >= (unsigned char)length.
FrameComplete(b, signed) ==
    (Len(b) % 256) >= (FrameLength(b, signed) % 256)

\* QByteArray::left(len).
left(b, len) == IF len >= Len(b) THEN b
                ELSE IF len < 0 THEN <<>>
                ELSE SubSeq(b, 1, len)

\* QByteArray::remove(0, len).
remove0(b, len) == IF len <= 0 \/ Len(b) = 0 THEN b
                   ELSE IF len >= Len(b) THEN <<>>
                   ELSE SubSeq(b, len + 1, Len(b))

\* The API-mode branch of readData on the buffer b (the new bytes appended):
\* the packets given to processPacket and the buffer left behind.
Deframe(b, signed) ==
    LET a == RemoveGarbage(b)
    IN IF Len(a) > 2 /\ FrameComplete(a, signed)
       THEN [packets |-> << left(a, FrameLength(a, signed)) >>,
             buffer  |-> remove0(a, FrameLength(a, signed))]
       ELSE [packets |-> <<>>, buffer |-> a]

(***************************************************************************)
(* processPacket (lines 547-600) and processATCommandRespone (603-638).    *)
(***************************************************************************)
\* A signal and its argument; a property-changed signal names its property.
Event(sig, arg) == [sig |-> sig, prop |-> "", arg |-> arg]
PropChanged(p, v) == [sig |-> "Changed", prop |-> p, arg |-> v]

\* A mutation of the switch: a node-discovery response is stored as well.
StoresValueAlsoND(rep) == atCommand(rep) \in AddressingProps \cup { "ND" }

\* Lines 611-627: the switch stores and announces a value for this response.
StoresValue(rep) == atCommand(rep) \in AddressingProps

\* Line 607: quint32 dataInt = QString(data).toInt(0, 16).
DataInt(rep) == toInt(toHex(data(rep))).val

\* The value the switch stores for the response: dataInt, or for NI the
\* hexadecimal text of the payload (line 620).
StoredValue(rep) ==
    IF atCommand(rep) = "NI" THEN toHex(data(rep)) ELSE DataInt(rep)

\* processATCommandRespone(rep) on the store pr: the store and the signals.
processATCommandRespone(pr, rep) ==
    IF StoresValue(rep)
    THEN [props   |-> [pr EXCEPT ![atCommand(rep)] = StoredValue(rep)],
          emitted |-> << PropChanged(atCommand(rep),
                                     IF atCommand(rep) = "NI"
                                     THEN StoredValue(rep)
                                     ELSE << StoredValue(rep) >>),
                         Event("receivedATCommandResponse", rep) >>]
    ELSE [props   |-> pr,
          emitted |-> << Event("receivedATCommandResponse", rep) >>]

\* The signal processPacket emits for a frame type other than 0x88.
TypedSignal(t) ==
    CASE t = ModemStatusType -> "receivedModemStatus"
      [] t = TransmitStatusType -> "receivedTransmitStatus"
      [] t = RXIndicatorType -> "receivedRXIndicator"
      [] t = ExplicitRxIndicatorType -> "receivedRXIndicatorExplicit"
      [] t = NodeIdentificationIndicatorType ->
             "receivedNodeIdentificationIndicator"
      [] t = RemoteATCommandResponseType -> "receivedRemoteCommandResponse"
      [] OTHER -> "none"

\* Line 549, packet.at(3): the byte at offset 3 when the packet has one.  A
\* shorter packet is read out of bounds: a debug build stops at the assertion
\* of QByteArray::at (-1 here), a release build reads the terminating zero of
\* a 3-byte packet and whatever lies behind a shorter one.
PacketTypes(packet) ==
    IF Len(packet) > 3 THEN { packet[4] }
    ELSE IF Len(packet) = 3 THEN { -1, 0 }
    ELSE { -1, 0, ATCommandResponseType, ModemStatusType }

\* processPacket(packet) with the type t read at offset 3.
processPacket(pr, packet, t) ==
    IF t = ATCommandResponseType THEN processATCommandRespone(pr, packet)
    ELSE IF TypedSignal(t) # "none"
    THEN [props |-> pr, emitted |-> << Event(TypedSignal(t), packet) >>]
    ELSE [props |-> pr, emitted |-> <<>>]

(***************************************************************************)
(* The command session.                                                    *)
(***************************************************************************)
\* A mutation of the wrap: the counter already wraps after 254.
NextFrameIdWrapsAt254(c) == IF c >= 254 THEN 1 ELSE c + 1

\* The frame id that follows c.
NextFrameId(c) == IF c >= 255 THEN 1 ELSE c + 1

NullRep == [null |-> TRUE, packet |-> <<>>]

\* A mutation of the reply test: a response object even for no bytes.
SyncRepAlways(repPacket) == [null |-> FALSE, packet |-> repPacket]

\* What sendATCommandSync returns for the bytes it read.
SyncRep(repPacket) ==
    IF Len(repPacket) > 0 THEN [null |-> FALSE, packet |-> repPacket]
    ELSE NullRep

Cmd(c, p) == [cmd |-> c, param |-> p]

NoHs == [ran |-> FALSE, apOk |-> FALSE, apValue |-> -1, setOk |-> FALSE,
         modeStep |-> FALSE, hvOk |-> FALSE, hvValue |-> -1, hvStep |-> FALSE,
         result |-> FALSE]
NoRet == [bRet |-> FALSE, rep |-> NullRep]
NoRead == [buffer |-> <<>>, bytes |-> <<>>, props |-> <<>>]

\* The body of readData (lines 522-544) on the buffer b and the store pr,
\* with the bytes readAll() returned and the type t line 549 reads when a
\* packet is extracted: what it leaves and what it emits.
readDataOn(b, pr, mode, signed, bytes, t) ==
    LET acc == b \o bytes
        d == Deframe(acc, signed)
        pp == processPacket(pr, d.packets[1], t)
    IN IF mode = "TransparentMode"
       THEN [buffer     |-> IF endsWithCR(acc) THEN <<>> ELSE acc,
             props      |-> pr,
             dispatched |-> <<>>,
             emitted    |-> IF endsWithCR(acc)
                            THEN << Event("rawDataReceived", acc) >>
                            ELSE <<>>,
             aborted    |-> FALSE]
       ELSE IF d.packets = <<>>
       THEN [buffer |-> d.buffer, props |-> pr, dispatched |-> <<>>,
             emitted |-> <<>>, aborted |-> FALSE]
       ELSE IF t = -1
       THEN [buffer |-> RemoveGarbage(acc), props |-> pr,
             dispatched |-> d.packets, emitted |-> <<>>, aborted |-> TRUE]
       ELSE [buffer |-> d.buffer, props |-> pp.props,
             dispatched |-> d.packets, emitted |-> pp.emitted,
             aborted |-> FALSE]

\* The types line 549 can read when readData appends bytes to b (0 when
\* nothing is dispatched).
TypesRead(b, mode, signed, bytes) ==
    LET d == Deframe(b \o bytes, signed)
    IN IF mode = "TransparentMode" \/ d.packets = <<>> THEN { 0 }
       ELSE PacketTypes(d.packets[1])

\* A mutation of line 302: readyRead() reaches its slot though the signals
\* of the port are blocked.
SlotRunsUnblocked(connected, blocked) == connected

\* A readyRead() of the port runs readData when the signal is connected to it
\* (line 162) and the signals of the port are not blocked (lines 302, 311).
SlotRuns(connected, blocked) == connected /\ ~blocked

(***************************************************************************)
(* sendATCommandSync, as a function of the session it runs in.  A session  *)
(* is [ctr, wire, written, assigned, rep, slot, blocked]: the frame id     *)
(* counter, the bytes waiting on the port, the commands written and the    *)
(* ids assigned so far, the response of the last call, the bytes readData  *)
(* took during the calls, and whether the port's signals are blocked.      *)
(* reply is what the device sends while the call waits; a closed port      *)
(* takes no write and gives no bytes.  waitForReadyRead (line 306) makes   *)
(* the port emit readyRead() for the bytes that arrived: with the signals  *)
(* blocked at line 302 the slot does not run and readAll (line 308) gets   *)
(* them; otherwise readData would take them first.                         *)
(***************************************************************************)
Session(ctr, w, blocked) ==
    [ctr |-> ctr, wire |-> w, written |-> <<>>, assigned |-> <<>>,
     rep |-> NullRep, slot |-> <<>>, blocked |-> blocked]

sendSync(s, open, connected, command, reply) ==
    LET arrived == IF open THEN s.wire \o reply ELSE <<>>
        taken == arrived # <<>> /\ SlotRuns(connected, TRUE)
    IN [ctr      |-> NextFrameId(s.ctr),
        assigned |-> Append(s.assigned, s.ctr),
        written  |-> IF open THEN Append(s.written, command) ELSE s.written,
        wire     |-> <<>>,
        rep      |-> SyncRep(IF taken THEN <<>> ELSE arrived),
        slot     |-> IF taken THEN s.slot \o arrived ELSE s.slot,
        blocked  |-> FALSE]

\* What the bytes readData took during a session did to the deframer; t is
\* the type line 549 reads.
SlotEffect(s, t) ==
    IF s.slot = <<>>
    THEN [buffer |-> buffer, props |-> props, dispatched |-> <<>>,
          emitted |-> <<>>, aborted |-> FALSE]
    ELSE readDataOn(buffer, props, m_mode, charSigned, s.slot, t)

SlotTypes(s) ==
    IF s.slot = <<>> THEN { 0 }
    ELSE TypesRead(buffer, m_mode, charSigned, s.slot)

(***************************************************************************)
(* startupCheck.  XBeeSerie1 and XBeeSerie1Pro are enumerators of          *)
(* global.h; the test of line 728 only needs XBeeSerie1Pro to be non-zero. *)
(***************************************************************************)
XBeeSerie1 == 23
XBeeSerie1Pro == 24

ParamOne == <<49>>   \* at.setParameter("1")

\* A mutation of the mode test: the set command is sent whatever AP is.
NeedSetAPAlways(rep) == ~rep.null /\ commandStatus(rep.packet) = StatusOk
                        /\ toInt(toHex(data(rep.packet))).ok

\* Lines 675-681: the AP response asks for the corrective AP=1 command.
NeedSetAP(rep) ==
    /\ ~rep.null
    /\ commandStatus(rep.packet) = StatusOk
    /\ toInt(toHex(data(rep.packet))).ok
    /\ toInt(toHex(data(rep.packet))).val # 1

\* Lines 675-717: bRet after the mode step; rep is the AP response, setRep the
\* response of the corrective command (read only when one was sent).
ModeStep(rep, setRep) ==
    /\ ~rep.null
    /\ commandStatus(rep.packet) = StatusOk
    /\ toInt(toHex(data(rep.packet))).ok
    /\ IF toInt(toHex(data(rep.packet))).val # 1
       THEN ~setRep.null /\ commandStatus(setRep.packet) = StatusOk
       ELSE TRUE

\* Line 728: hv == QtXBee::XBeeSerie1 || QtXBee::XBeeSerie1Pro.
HvAccepted(hv) == (hv = XBeeSerie1) \/ (XBeeSerie1Pro # 0)

\* Lines 722-751: the hardware-revision step reaches "XBee Serie 1/1Pro : OK".
HvStep(rep) ==
    /\ ~rep.null
    /\ commandStatus(rep.packet) = StatusOk
    /\ toInt(toHex(data(rep.packet))).ok
    /\ HvAccepted(toInt(toHex(data(rep.packet))).val)

\* A mutation of line 729: a passing hardware-revision step sets bRet.
HandshakeResultHvOnly(bRet, hvOk) == hvOk

\* Lines 729-750: bRet &= true when the hardware-revision step passes, bRet =
\* false on each of its failures; bRet is what the mode step left.
HandshakeResult(bRet, hvOk) == IF hvOk THEN bRet ELSE FALSE

\* The whole of startupCheck from session s0: the session it ends in and the
\* record of its steps.  r1, r2, r3 are the device's replies to the AP query,
\* to the corrective AP=1 command and to the HV query.
startupCheck(s0, found, open, connected, r1, r2, r3) ==
    IF ~found THEN [s |-> s0, hs |-> [NoHs EXCEPT !.ran = TRUE]]
    ELSE
      LET s1 == sendSync(s0, open, connected, Cmd("AP", <<>>), r1)
          s2 == IF NeedSetAP(s1.rep)
                THEN sendSync(s1, open, connected, Cmd("AP", ParamOne), r2)
                ELSE s1
          bRet1 == ModeStep(s1.rep, s2.rep)
          s3 == sendSync(s2, open, connected, Cmd("HV", <<>>), r3)
          hvOk == HvStep(s3.rep)
          ap == toInt(toHex(data(s1.rep.packet)))
          hv == toInt(toHex(data(s3.rep.packet)))
      IN [s  |-> s3,
          hs |-> [ran      |-> TRUE,
                  apOk     |-> ~s1.rep.null
                               /\ commandStatus(s1.rep.packet) = StatusOk,
                  apValue  |-> IF ap.ok THEN ap.val ELSE -1,
                  setOk    |-> NeedSetAP(s1.rep) /\ ~s2.rep.null
                               /\ commandStatus(s2.rep.packet) = StatusOk,
                  modeStep |-> bRet1,
                  hvOk     |-> ~s3.rep.null
                               /\ commandStatus(s3.rep.packet) = StatusOk,
                  hvValue  |-> IF hv.ok THEN hv.val ELSE -1,
                  hvStep   |-> hvOk,
                  result   |-> HandshakeResult(bRet1, hvOk)]]

(***************************************************************************)
(* The device's replies to a synchronous command.                          *)
(***************************************************************************)
Replies(c, payloads) ==
    {<<>>} \cup { ATResponse(1, c, st, d) :
                    st \in {StatusOk, StatusError}, d \in payloads }

APPayloads == { <<>>, <<1>>, <<2>>, <<255, 255, 255, 255>> }
HVPayloads == { <<>>, <<23>>, <<24>>, <<25>> }

APReplies == Replies("AP", APPayloads)
SetReplies == Replies("AP", { <<>> })
HVReplies == Replies("HV", HVPayloads)
\* What a caller of sendATCommandSync may read: a reply, or a stray byte.
SyncReplies == Replies("AP", { <<>>, <<1>> }) \cup { <<0>> }

(***************************************************************************)
(* The initial state: the default constructor XBee::XBee, lines 33-55.     *)
(***************************************************************************)
Init ==
    /\ m_serial = "NULL"
    /\ isOpen = FALSE
    /\ readyReadConnected = FALSE
    /\ signalsBlocked = FALSE
    /\ xbeeFound = FALSE
    /\ m_mode = "TransparentMode"
    /\ m_frameIdCounter = 1
    /\ buffer = <<>>
    /\ props = [p \in AddressingProps |-> IF p = "NI" THEN <<>> ELSE 0]
    /\ wire = <<>>
    /\ op = "XBee"
    /\ emitted = <<>>
    /\ dispatched = <<>>
    /\ written = <<>>
    /\ assigned = <<>>
    /\ ret = NoRet
    /\ hs = NoHs
    /\ last = NoRead
    /\ nAssigned = 0
    /\ nFrames = 0
    /\ aborted = FALSE
    /\ charSigned \in BOOLEAN

\* What every operation leaves alone unless it says otherwise.
Quiet == /\ emitted' = <<>>
         /\ dispatched' = <<>>
         /\ UNCHANGED << buffer, props, m_mode, charSigned, nFrames >>

\* The process dies: nothing runs after it.
Abort(name) ==
    /\ aborted' = TRUE
    /\ op' = name
    /\ written' = <<>> /\ assigned' = <<>> /\ ret' = NoRet /\ hs' = NoHs
    /\ emitted' = <<>> /\ dispatched' = <<>> /\ last' = NoRead
    /\ UNCHANGED << m_serial, isOpen, readyReadConnected, signalsBlocked,
                    xbeeFound, m_mode, m_frameIdCounter, buffer, props, wire,
                    nAssigned, nFrames, charSigned >>

(***************************************************************************)
(* setSerialPort(serialPort), lines 153-170, with initSerialConnection     *)
(* (lines 640-663) and the startupCheck it runs.  cfgOk is the result of   *)
(* applyDefaultSerialPortConfig, openOk that of QSerialPort::open.         *)
(***************************************************************************)
\* A mutation of line 653: a failed handshake fails the connection.
InitResultGated(opened, checked) == opened /\ checked

\* Lines 645-662: initSerialConnection returns true when the port opened,
\* whatever startupCheck (line 652) returned, and false otherwise.
InitResult(opened, checked) == opened

\* The port is made or renamed and, when opened says so, opened by
\* initSerialConnection, which then runs startupCheck.
portSetup(name, opened, r1, r2, r3) ==
    LET fresh == m_serial = "NULL"
        found == xbeeFound \/ opened
        \* a new port holds no bytes; close() drops what the old one held
        s0 == Session(m_frameIdCounter, <<>>,
                      IF fresh THEN FALSE ELSE signalsBlocked)
    IN \E sc \in { IF opened
                    THEN startupCheck(s0, found, TRUE, fresh, r1, r2, r3)
                    ELSE [s |-> s0, hs |-> NoHs] } :
       /\ ~aborted
       /\ m_serial' = "port"
       /\ readyReadConnected' = fresh
       /\ signalsBlocked' = sc.s.blocked
       /\ isOpen' = opened
       /\ xbeeFound' = found
       /\ m_frameIdCounter' = sc.s.ctr
       /\ wire' = sc.s.wire
       /\ written' = sc.s.written
       /\ assigned' = sc.s.assigned
       /\ nAssigned' = nAssigned + Len(sc.s.assigned)
       /\ hs' = sc.hs
       /\ ret' = [bRet |-> InitResult(opened, sc.hs.result), rep |-> NullRep]
       /\ op' = name
       /\ last' = NoRead
       /\ \E t \in SlotTypes(sc.s) :
            LET r == SlotEffect(sc.s, t)
            IN /\ buffer' = r.buffer
               /\ props' = r.props
               /\ dispatched' = r.dispatched
               /\ emitted' = r.emitted
               /\ aborted' = r.aborted
       /\ UNCHANGED << m_mode, charSigned, nFrames >>

\* initSerialConnection is called only when the configuration was applied
\* (line 165).
setSerialPort(cfgOk, openOk, r1, r2, r3) ==
    portSetup("setSerialPort", cfgOk /\ openOk, r1, r2, r3)

\* The constructor XBee::XBee(serialPort, parent), lines 70-97, seen as the
\* first step of a driver: it makes the port, connects readyRead() and calls
\* initSerialConnection whatever applyDefaultSerialPortConfig returned.
XBeeWithPort(openOk, r1, r2, r3) ==
    /\ op = "XBee" /\ m_serial = "NULL"
    /\ portSetup("XBee(serialPort)", openOk, r1, r2, r3)

\* startupCheck() called on its own, lines 665-758.
startupCheckCall(r1, r2, r3) ==
    \E sc \in { startupCheck(Session(m_frameIdCounter, wire, signalsBlocked),
                             xbeeFound, isOpen, readyReadConnected,
                             r1, r2, r3) } :
       /\ ~aborted
       /\ signalsBlocked' = sc.s.blocked
       /\ m_frameIdCounter' = sc.s.ctr
       /\ wire' = sc.s.wire
       /\ written' = sc.s.written
       /\ assigned' = sc.s.assigned
       /\ nAssigned' = nAssigned + Len(sc.s.assigned)
       /\ hs' = sc.hs
       /\ ret' = [bRet |-> sc.hs.result, rep |-> NullRep]
       /\ op' = "startupCheck"
       /\ last' = NoRead
       /\ \E t \in SlotTypes(sc.s) :
            LET r == SlotEffect(sc.s, t)
            IN /\ buffer' = r.buffer
               /\ props' = r.props
               /\ dispatched' = r.dispatched
               /\ emitted' = r.emitted
               /\ aborted' = r.aborted
       /\ UNCHANGED << m_serial, isOpen, readyReadConnected, xbeeFound,
                       m_mode, charSigned, nFrames >>

\* open(), lines 117-124.
open(openOk) ==
    /\ ~aborted
    /\ isOpen' = (IF m_serial = "NULL" THEN FALSE ELSE isOpen \/ openOk)
    /\ ret' = [bRet |-> m_serial # "NULL" /\ ~isOpen /\ openOk, rep |-> NullRep]
    /\ op' = "open"
    /\ written' = <<>> /\ assigned' = <<>> /\ hs' = NoHs
    /\ UNCHANGED << m_serial, readyReadConnected, signalsBlocked, xbeeFound,
                    m_frameIdCounter, wire, nAssigned, aborted >>
    /\ Quiet
    /\ last' = NoRead

\* close(), lines 130-136.
close ==
    /\ ~aborted
    /\ isOpen' = FALSE
    /\ wire' = <<>>
    /\ ret' = [bRet |-> TRUE, rep |-> NullRep]
    /\ op' = "close"
    /\ written' = <<>> /\ assigned' = <<>> /\ hs' = NoHs
    /\ UNCHANGED << m_serial, readyReadConnected, signalsBlocked, xbeeFound,
                    m_frameIdCounter, nAssigned, aborted >>
    /\ Quiet
    /\ last' = NoRead

\* A mutation of line 266: the command is sent whatever the port's state.
WritableAlways(found, isopen) == TRUE

\* Line 266: xbeeFound && m_serial->isOpen().
Writable(found, isopen) == found /\ isopen

(***************************************************************************)
(* sendATCommandAsync(command), lines 264-282.  With no port and the       *)
(* connected flag unset, line 280 calls portName() through a null pointer. *)
(***************************************************************************)
\* The frame id counter after n assignments from c.
RECURSIVE FrameIdAfter(_, _)
FrameIdAfter(c, n) == IF n = 0 THEN c ELSE NextFrameId(FrameIdAfter(c, n - 1))

\* An operation that is a run of sendATCommandAsync calls, one per command:
\* all of them are written, or all are dropped, or the first one dies.  The
\* store is left to the operation.
asyncCalls(name, commands) ==
    /\ ~aborted
    /\ IF Writable(xbeeFound, isOpen)
       THEN /\ assigned' = [i \in 1..Len(commands) |->
                               FrameIdAfter(m_frameIdCounter, i - 1)]
            /\ m_frameIdCounter' = FrameIdAfter(m_frameIdCounter, Len(commands))
            /\ nAssigned' = nAssigned + Len(commands)
            /\ written' = commands
            /\ ret' = NoRet /\ hs' = NoHs
            /\ op' = name
            /\ emitted' = <<>> /\ dispatched' = <<>> /\ last' = NoRead
            /\ UNCHANGED << m_serial, isOpen, readyReadConnected,
                            signalsBlocked, xbeeFound, wire, aborted, buffer,
                            m_mode, charSigned, nFrames >>
       ELSE IF m_serial = "NULL"
       THEN Abort(name)
       ELSE /\ assigned' = <<>> /\ written' = <<>>
            /\ ret' = NoRet /\ hs' = NoHs
            /\ op' = name
            /\ emitted' = <<>> /\ dispatched' = <<>> /\ last' = NoRead
            /\ UNCHANGED << m_serial, isOpen, readyReadConnected,
                            signalsBlocked, xbeeFound, m_frameIdCounter,
                            nAssigned, wire, aborted, buffer, m_mode,
                            charSigned, nFrames >>

sendATCommandAsync(command) ==
    /\ asyncCalls("sendATCommandAsync", << command >>)
    /\ UNCHANGED props

(***************************************************************************)
(* The property setters setDH .. setCR (lines 393-511) and                 *)
(* loadAddressingProperties (lines 369-386).                               *)
(***************************************************************************)
\* QByteArray::number(v): v in decimal digits.
RECURSIVE number(_)
number(v) == IF v < 10 THEN << 48 + v >>
             ELSE Append(number(v \div 10), 48 + (v % 10))

\* A mutation of the setters: the value set is stored at once.
AfterSetterStores(pr, p, v) == [pr EXCEPT ![p] = v]

\* The store after a setter: no setter assigns a member.
AfterSetter(pr, p, v) == pr

\* setDH(v) .. setCR(v), and setNI(v) with the bytes of the name.
setProperty(p, v) ==
    /\ asyncCalls("set", << Cmd(p, IF p = "NI" THEN v ELSE number(v)) >>)
    /\ props' = AfterSetter(props, p, v)

\* The queries of loadAddressingProperties, in the order of lines 371-385.
LoadCommands ==
    [i \in 1..15 |->
        Cmd(<< "DH", "DL", "MY", "MP", "NC", "SH", "SL", "NI", "SE", "DE",
               "CI", "TO", "NP", "DD", "CR" >>[i], <<>>)]

loadAddressingProperties ==
    /\ asyncCalls("loadAddressingProperties", LoadCommands)
    /\ UNCHANGED props

(***************************************************************************)
(* sendATCommandSync(command), lines 289-318.  The frame id is assigned    *)
(* before the port is touched; with no port, line 302 calls blockSignals   *)
(* through a null pointer.                                                 *)
(***************************************************************************)
sendATCommandSync(command, reply) ==
    \E s \in { sendSync(Session(m_frameIdCounter, wire, signalsBlocked),
                         isOpen, readyReadConnected, command, reply) } :
       /\ ~aborted
       /\ IF m_serial = "NULL"
          THEN /\ Abort("sendATCommandSync")
          ELSE /\ m_frameIdCounter' = s.ctr
               /\ assigned' = s.assigned
               /\ nAssigned' = nAssigned + 1
               /\ written' = s.written
               /\ wire' = s.wire
               /\ signalsBlocked' = s.blocked
               /\ ret' = [bRet |-> FALSE, rep |-> s.rep]
               /\ hs' = NoHs
               /\ op' = "sendATCommandSync"
               /\ last' = [buffer |-> buffer, props |-> props,
                           bytes |-> IF isOpen THEN wire \o reply ELSE <<>>]
               /\ \E t \in SlotTypes(s) :
                    LET r == SlotEffect(s, t)
                    IN /\ buffer' = r.buffer
                       /\ props' = r.props
                       /\ dispatched' = r.dispatched
                       /\ emitted' = r.emitted
                       /\ aborted' = r.aborted
               /\ UNCHANGED << m_serial, isOpen, readyReadConnected,
                               xbeeFound, m_mode, charSigned, nFrames >>

\* readData() on the first k bytes waiting on the port; t is the type the
\* dispatcher reads when a packet is extracted.
readData(k, t) ==
    LET bytes == SubSeq(wire, 1, k)
        r == readDataOn(buffer, props, m_mode, charSigned, bytes, t)
    IN /\ ~aborted
       /\ m_serial # "NULL" /\ isOpen
       /\ SlotRuns(readyReadConnected, signalsBlocked)
       /\ k \in 1..Len(wire)
       /\ t \in TypesRead(buffer, m_mode, charSigned, bytes)
       /\ wire' = SubSeq(wire, k + 1, Len(wire))
       /\ op' = "readData"
       /\ last' = [buffer |-> buffer, bytes |-> bytes, props |-> props]
       /\ written' = <<>> /\ assigned' = <<>> /\ ret' = NoRet /\ hs' = NoHs
       /\ UNCHANGED << m_serial, isOpen, readyReadConnected, signalsBlocked,
                       xbeeFound, m_mode, m_frameIdCounter, nAssigned,
                       nFrames, charSigned >>
       /\ buffer' = r.buffer
       /\ props' = r.props
       /\ dispatched' = r.dispatched
       /\ emitted' = r.emitted
       /\ aborted' = r.aborted

\* The types line 549 can read when readData takes k bytes from the port.
ReadTypes(k) == TypesRead(buffer, m_mode, charSigned, SubSeq(wire, 1, k))

\* setMode(mode), declared in xbee.h.
setMode(mode) ==
    /\ ~aborted
    /\ m_mode' = mode
    /\ op' = "setMode"
    /\ emitted' = <<>> /\ dispatched' = <<>> /\ last' = NoRead
    /\ written' = <<>> /\ assigned' = <<>> /\ ret' = NoRet /\ hs' = NoHs
    /\ UNCHANGED << m_serial, isOpen, readyReadConnected, signalsBlocked,
                    xbeeFound, m_frameIdCounter, buffer, props, wire,
                    nAssigned, nFrames, aborted, charSigned >>

\* The device sends bytes: they wait on the open port until they are read.
DeviceSends(bytes) ==
    /\ ~aborted
    /\ m_serial # "NULL" /\ isOpen
    /\ nFrames < MaxFrames
    /\ wire' = wire \o bytes
    /\ nFrames' = nFrames + 1
    /\ op' = "deviceSends"
    /\ UNCHANGED << m_serial, isOpen, readyReadConnected, signalsBlocked,
                    xbeeFound, m_mode, m_frameIdCounter, buffer, props,
                    emitted, dispatched, written, assigned, ret, hs, last,
                    nAssigned, aborted, charSigned >>

(***************************************************************************)
(* The command session alone: a port is set, opened and closed, and        *)
(* commands are sent either way.                                           *)
(***************************************************************************)
IdReplies == { <<>>, ATResponse(1, "AP", StatusOk, <<1>>),
               ATResponse(1, "AP", StatusOk, <<2>>) }

MoreIds == nAssigned < MaxAssigned

NextIds ==
    \/ \E cfgOk, openOk \in BOOLEAN : \E r \in IdReplies :
          MoreIds /\ setSerialPort(cfgOk, openOk, r, r, r)
    \/ \E openOk \in BOOLEAN : open(openOk)
    \/ close
    \/ MoreIds /\ sendATCommandAsync(Cmd("DH", <<>>))
    \/ \E r \in IdReplies : MoreIds /\ sendATCommandSync(Cmd("AP", <<>>), r)

SpecIds == Init /\ [][NextIds]_vars

(***************************************************************************)
(* C1.  As stated: every frame id assigned to an outbound command lies in  *)
(* 1..254, and the counter that started at 1 is back at 1 after exactly    *)
(* 254 assignments.                                                        *)
(***************************************************************************)
C1_IdsIn1To254 ==
    /\ \A i \in 1..Len(assigned) : assigned[i] \in 1..254
    /\ nAssigned = 254 => m_frameIdCounter = 1

\* C1, amended: every frame id assigned to an outbound command lies in 1..255
\* (0 is never assigned, 255 is), and after n assignments the counter is
\* (n mod 255) + 1: it is back at 1 after exactly 255 assignments, not before.
C1_IdsIn1To255 ==
    /\ \A i \in 1..Len(assigned) : assigned[i] \in 1..255
    /\ m_frameIdCounter = (nAssigned % 255) + 1

\* The 255th assignment hands out the id 255 and wraps the counter to 1.
C1_Wrapped ==
    nAssigned = 255 /\ m_frameIdCounter = 1 /\ assigned = << 255 >>

(***************************************************************************)
(* One frame through the deframer: a port is opened, the driver is put in  *)
(* API mode, the device sends one well-formed frame of any declared length *)
(* 0..255, and the frame is read whole or in two pieces.                   *)
(***************************************************************************)
\* L bytes of type and payload: a receive indicator carrying the letter A.
Body(L) == [i \in 1..L |-> IF i = 1 THEN RXIndicatorType ELSE 65]

FrameOfLen(L) == Frame(Body(L))

\* b is a well-formed frame: 7E, the length of its body, the body, a checksum.
IsFrame(b) == /\ Len(b) >= 4
              /\ b[1] = StartDelimiter
              /\ b[2] = 0
              /\ Len(b) = b[3] + 4

NextFrame ==
    \/ nFrames = 0 /\ m_serial = "NULL"
         /\ setSerialPort(TRUE, TRUE, <<>>, <<>>, <<>>)
    \/ nFrames = 0 /\ m_serial # "NULL" /\ m_mode # "API1Mode"
         /\ setMode("API1Mode")
    \/ \E L \in 0..255 :
         nFrames = 0 /\ m_mode = "API1Mode" /\ DeviceSends(FrameOfLen(L))
    \/ \E k \in 1..Len(wire) :
         /\ op = "deviceSends" \/ k = Len(wire)
         /\ \E t \in ReadTypes(k) : readData(k, t)

SpecFrame == Init /\ [][NextFrame]_vars

(***************************************************************************)
(* C2.  In API mode, from an empty buffer, one delivery of a whole         *)
(* well-formed frame of declared length L (0..255, L+4 bytes) gives        *)
(* exactly that frame to the dispatcher and leaves the buffer empty.       *)
(***************************************************************************)
C2_WholeFrameDispatched ==
    (op = "readData" /\ m_mode = "API1Mode" /\ last.buffer = <<>>
        /\ IsFrame(last.bytes))
    => (dispatched = << last.bytes >> /\ buffer = <<>>)

(***************************************************************************)
(* C3.  In API mode, from an empty buffer, a well-formed frame that        *)
(* arrives in two non-empty pieces is not dispatched after the first piece *)
(* and is dispatched, whole, after the second.                             *)
(***************************************************************************)
C3_SplitFrameDispatchedOnce ==
    /\ (op = "readData" /\ m_mode = "API1Mode" /\ last.buffer = <<>>
           /\ wire # <<>> /\ IsFrame(last.bytes \o wire))
       => dispatched = <<>>
    /\ (op = "readData" /\ m_mode = "API1Mode" /\ last.buffer # <<>>
           /\ IsFrame(last.buffer \o last.bytes))
       => dispatched = << last.buffer \o last.bytes >>

(***************************************************************************)
(* The deframer on short streams, in both modes: the device sends up to    *)
(* MaxFrames pieces (frames, garbage, frames behind garbage, text lines),  *)
(* and each readData takes any non-empty part of what waits on the port.   *)
(***************************************************************************)
\* The frame of the spec's example, 7E 00 02 90 AB <checksum>.
ExampleFrame == Frame(<< RXIndicatorType, 171 >>)

Garbage == { << 1, 2 >>, << 13 >>, << 0 >> }

Pieces ==
    { ExampleFrame, FrameOfLen(1) }
        \cup Garbage
        \cup { g \o ExampleFrame : g \in Garbage }
        \cup { << 79, 75, 13 >>, << 79, 13, 75 >> }

NextDeframe ==
    \/ nFrames = 0 /\ m_serial = "NULL"
         /\ setSerialPort(TRUE, TRUE, <<>>, <<>>, <<>>)
    \/ \E mode \in { "TransparentMode", "API1Mode" } :
         nFrames = 0 /\ m_serial # "NULL" /\ m_mode # mode /\ setMode(mode)
    \/ \E bytes \in Pieces : DeviceSends(bytes)
    \/ \E k \in 1..Len(wire) : \E t \in ReadTypes(k) : readData(k, t)

SpecDeframe == Init /\ [][NextDeframe]_vars

HasMarker(b) == \E i \in 1..Len(b) : b[i] = StartDelimiter

\* b from its first 0x7E on.
FromMarker(b) ==
    LET first == CHOOSE i \in 1..Len(b) :
                   b[i] = StartDelimiter
                     /\ \A j \in 1..Len(b) : b[j] = StartDelimiter => i <= j
    IN SubSeq(b, first, Len(b))

IsPrefix(a, b) == Len(a) <= Len(b) /\ a = SubSeq(b, 1, Len(a))

(***************************************************************************)
(* C4.  In API mode, bytes other than 0x7E at the head of the buffer (left *)
(* there or just delivered) never reach the dispatcher: a delivery that    *)
(* leaves the buffer without any 0x7E empties it and dispatches nothing;   *)
(* otherwise what is dispatched, and what stays in the buffer, is what the *)
(* bytes from the first 0x7E on give when they arrive alone in an empty    *)
(* buffer, and every dispatched packet is a prefix of those bytes.         *)
(***************************************************************************)
C4_GarbageDiscarded ==
    (op = "readData" /\ m_mode = "API1Mode" /\ ~aborted
        /\ ~HasMarker(last.buffer))
    => LET all == last.buffer \o last.bytes
       IN IF ~HasMarker(all)
          THEN buffer = <<>> /\ dispatched = <<>>
          ELSE /\ dispatched = Deframe(FromMarker(all), charSigned).packets
               /\ buffer = Deframe(FromMarker(all), charSigned).buffer
               /\ \A i \in 1..Len(dispatched) :
                     IsPrefix(dispatched[i], FromMarker(all))

\* Garbage and the example frame arrived in one delivery; the frame alone was
\* dispatched and the buffer is empty.
C4_GarbageThenFrame ==
    /\ op = "readData" /\ m_mode = "API1Mode"
    /\ last.buffer = <<>>
    /\ last.bytes = << 1, 2 >> \o ExampleFrame
    /\ dispatched = << ExampleFrame >>
    /\ buffer = <<>>

(***************************************************************************)
(* C5.  In transparent mode, after a delivery is appended, the whole       *)
(* accumulated buffer is emitted as one rawDataReceived and the buffer is  *)
(* cleared if and only if the last byte of the buffer is 13; otherwise     *)
(* nothing is emitted and every accumulated byte stays in the buffer.      *)
(***************************************************************************)
C5_TransparentLine ==
    (op = "readData" /\ m_mode = "TransparentMode")
    => LET all == last.buffer \o last.bytes
       IN /\ dispatched = <<>>
          /\ IF all[Len(all)] = 13
             THEN emitted = << Event("rawDataReceived", all) >>
                  /\ buffer = <<>>
             ELSE emitted = <<>> /\ buffer = all

\* "OK" and a carriage return were emitted as one payload; and a buffer that
\* holds a carriage return in the middle only keeps accumulating.
C5_LineEmitted ==
    /\ op = "readData" /\ m_mode = "TransparentMode"
    /\ last.buffer = << 79 >> /\ last.bytes = << 75, 13 >>
    /\ emitted = << Event("rawDataReceived", << 79, 75, 13 >>) >>
    /\ buffer = <<>>

(***************************************************************************)
(* AT command responses through the deframer and the dispatcher: in API    *)
(* mode the device sends up to MaxFrames responses, each read whole.  The  *)
(* last one is a response to any command; the ones before it load DH, NI.  *)
(***************************************************************************)
\* Status and payload of a response: a value, a value beyond the int range,
\* no payload, and an error report.
Answers == { << StatusOk, << 171, 205 >> >>,
             << StatusOk, << 128, 0, 0, 0 >> >>,
             << StatusOk, <<>> >>,
             << StatusError, <<>> >> }

ATFrames(cmds) == { ATResponse(1, c, a[1], a[2]) : c \in cmds, a \in Answers }

NextAT ==
    \/ nFrames = 0 /\ m_serial = "NULL"
         /\ setSerialPort(TRUE, TRUE, <<>>, <<>>, <<>>)
    \/ nFrames = 0 /\ m_serial # "NULL" /\ m_mode # "API1Mode"
         /\ setMode("API1Mode")
    \/ \E f \in ATFrames({ "DH", "NI" }) :
         m_mode = "API1Mode" /\ wire = <<>> /\ nFrames < MaxFrames - 1
           /\ DeviceSends(f)
    \/ \E f \in ATFrames(Commands \ { "HV" }) :
         m_mode = "API1Mode" /\ wire = <<>> /\ nFrames = MaxFrames - 1
           /\ DeviceSends(f)
    \/ \E t \in ReadTypes(Len(wire)) : readData(Len(wire), t)

SpecAT == Init /\ [][NextAT]_vars

\* The last readData dispatched one AT command response.
ATDispatched ==
    /\ op = "readData" /\ ~aborted
    /\ Len(dispatched) = 1
    /\ Len(dispatched[1]) >= 9
    /\ dispatched[1][4] = ATCommandResponseType

Count(sig) == Cardinality({ i \in 1..Len(emitted) : emitted[i].sig = sig })

\* v as big-endian bytes without leading zeros.
RECURSIVE ToBytes(_)
ToBytes(v) == IF v = 0 THEN <<>> ELSE Append(ToBytes(v \div 256), v % 256)

RECURSIVE StripZeros(_)
StripZeros(d) == IF d # <<>> /\ d[1] = 0 THEN StripZeros(Tail(d)) ELSE d

(***************************************************************************)
(* C6.  For every dispatched AT command response whose status reports a    *)
(* failure, no stored addressing property changes and no property-changed  *)
(* signal is emitted, while receivedATCommandResponse is emitted once.     *)
(***************************************************************************)
C6_FailureLeavesStore ==
    (ATDispatched /\ commandStatus(dispatched[1]) # StatusOk)
    => /\ props = last.props
       /\ Count("Changed") = 0
       /\ Count("receivedATCommandResponse") = 1

(***************************************************************************)
(* C7.  For every dispatched AT command response with status Ok for one of *)
(* the 14 numeric addressing properties, whose payload encodes the value   *)
(* v, the property becomes v, every other property is unchanged, and       *)
(* exactly one property-changed signal, for that property and carrying v,  *)
(* is emitted.                                                             *)
(***************************************************************************)
C7_SuccessStoresValue ==
    (ATDispatched /\ commandStatus(dispatched[1]) = StatusOk
        /\ atCommand(dispatched[1]) \in NumericProps
        /\ data(dispatched[1]) # <<>>)
    => LET c == atCommand(dispatched[1])
       IN /\ ToBytes(props[c]) = StripZeros(data(dispatched[1]))
          /\ \A q \in AddressingProps \ { c } : props[q] = last.props[q]
          /\ Count("Changed") = 1
          /\ \E i \in 1..Len(emitted) :
                emitted[i] = PropChanged(c, << props[c] >>)

(***************************************************************************)
(* The start-up handshake and the synchronous call: a port is set (and,    *)
(* when it opens, the handshake runs against any combination of replies),  *)
(* closed and opened again, and commands are sent synchronously, until     *)
(* MaxSyncIds frame ids are used up.                                       *)
(***************************************************************************)
MoreSyncIds == nAssigned < MaxSyncIds

NextStartup ==
    \/ \E cfgOk, openOk \in BOOLEAN :
         \E r1 \in APReplies, r2 \in SetReplies, r3 \in HVReplies :
           MoreSyncIds /\ setSerialPort(cfgOk, openOk, r1, r2, r3)
    \/ \E openOk \in BOOLEAN : open(openOk)
    \/ close
    \/ \E r \in SyncReplies :
         MoreSyncIds /\ sendATCommandSync(Cmd("AP", <<>>), r)

SpecStartup == Init /\ [][NextStartup]_vars

\* The last operation ran the handshake and its AP query was answered Ok.
APAnswered == op = "setSerialPort" /\ hs.ran /\ hs.apOk

(***************************************************************************)
(* C8.  A sendATCommandSync call on a driver that has a port returns; it   *)
(* returns a null response when it read zero bytes, and a response, made   *)
(* of the bytes read, only when it read at least one byte.                 *)
(***************************************************************************)
C8_NullIffNoBytes ==
    (op = "sendATCommandSync" /\ m_serial # "NULL")
    => /\ ~aborted
       /\ ret.rep.null <=> last.bytes = <<>>
       /\ ~ret.rep.null => ret.rep.packet = last.bytes

\* A command was written to the open port, no byte came back, and the call
\* returned null.
C8_NoBytesNull ==
    /\ op = "sendATCommandSync" /\ isOpen
    /\ written = << Cmd("AP", <<>>) >>
    /\ last.bytes = <<>>
    /\ ret.rep.null

(***************************************************************************)
(* C9.  In the handshake, when the AP query is answered Ok with the value  *)
(* 1, only the AP and HV queries are written and the mode step succeeds;   *)
(* when it is answered Ok with another (decodable) value, exactly one      *)
(* AP=1 command is written between the AP query and the HV query, and the  *)
(* mode step succeeds if and only if that command is answered Ok.          *)
(***************************************************************************)
C9_ModeStep ==
    APAnswered
    => /\ hs.apValue = 1
          => /\ written = << Cmd("AP", <<>>), Cmd("HV", <<>>) >>
             /\ hs.modeStep
       /\ hs.apValue \notin { 1, -1 }
          => /\ written = << Cmd("AP", <<>>), Cmd("AP", ParamOne),
                             Cmd("HV", <<>>) >>
             /\ hs.modeStep <=> hs.setOk

\* The AP query returned 2, the corrective command was written and answered
\* Ok, and the mode step succeeded.
C9_ModeCorrected ==
    /\ APAnswered /\ hs.apValue = 2
    /\ written = << Cmd("AP", <<>>), Cmd("AP", ParamOne), Cmd("HV", <<>>) >>
    /\ hs.setOk /\ hs.modeStep

(***************************************************************************)
(* C10.  The hardware-revision step succeeds only when the revision the    *)
(* HV query returns is XBeeSerie1 or XBeeSerie1Pro; for every other        *)
(* returned revision the handshake fails.                                  *)
(***************************************************************************)
C10_HvMembership ==
    (op = "setSerialPort" /\ hs.ran)
    => /\ hs.hvStep => hs.hvValue \in { XBeeSerie1, XBeeSerie1Pro }
       /\ (hs.hvOk /\ hs.hvValue # -1
               /\ hs.hvValue \notin { XBeeSerie1, XBeeSerie1Pro })
          => ~hs.result

(***************************************************************************)
(* C11 as stated.  Every sendATCommandAsync call advances the frame id     *)
(* counter by one step, wrapping to 1, whatever the state of the port.     *)
(***************************************************************************)
C11_AlwaysAdvances ==
    [][op' = "sendATCommandAsync"
         => m_frameIdCounter' = IF m_frameIdCounter = 255 THEN 1
                                ELSE m_frameIdCounter + 1]_vars

(***************************************************************************)
(* C11.  A sendATCommandAsync call advances the frame id counter by one    *)
(* step, wrapping from 255 to 1, exactly when the connected flag is set    *)
(* and the port is open, which is when it writes the command; every other  *)
(* call leaves the counter as it was.                                      *)
(***************************************************************************)
C11_AdvancesIffWritten ==
    [][op' = "sendATCommandAsync"
         => m_frameIdCounter' =
              IF xbeeFound /\ isOpen
              THEN (IF m_frameIdCounter = 255 THEN 1 ELSE m_frameIdCounter + 1)
              ELSE m_frameIdCounter]_vars

\* A call on a port that was open and is now closed: nothing is written and
\* no frame id is assigned.
C11_DroppedCall ==
    /\ op = "sendATCommandAsync" /\ ~aborted
    /\ m_serial # "NULL" /\ xbeeFound /\ ~isOpen
    /\ written = <<>> /\ assigned = <<>>
    /\ m_frameIdCounter > 1

(***************************************************************************)
(* C12.  A sendATCommandAsync call made while the connected flag is unset  *)
(* or the port is not open writes nothing and raises no error, and the     *)
(* command is dropped: a later open writes nothing.                        *)
(***************************************************************************)
C12_DroppedSilently ==
    /\ (op = "sendATCommandAsync" /\ ~(xbeeFound /\ isOpen))
       => (~aborted /\ written = <<>>)
    /\ op = "open" => written = <<>>

\* The seven frame types processPacket has a case for.
KnownTypes ==
    { ATCommandResponseType, ModemStatusType, TransmitStatusType,
      RXIndicatorType, ExplicitRxIndicatorType,
      NodeIdentificationIndicatorType, RemoteATCommandResponseType }

\* The signal that announces a frame of a known type.
KindOf(t) == IF t = ATCommandResponseType THEN "receivedATCommandResponse"
             ELSE TypedSignal(t)

(***************************************************************************)
(* C13.  For every frame given to processPacket, the signals emitted are   *)
(* decided by the byte at offset 3: exactly one signal, of the matching    *)
(* kind, for each of the seven known types, and none for any other type;   *)
(* for an unknown type the store is unchanged and the frame is removed     *)
(* from the buffer.                                                        *)
(***************************************************************************)
C13_OneEventPerTag ==
    (op = "readData" /\ dispatched # <<>>)
    => LET pkt == dispatched[1]
       IN /\ ~aborted
          /\ Len(pkt) >= 4
          /\ pkt[4] \in KnownTypes
             => Len(emitted) = 1 /\ emitted[1].sig = KindOf(pkt[4])
          /\ pkt[4] \notin KnownTypes
             => /\ emitted = <<>>
                /\ props = last.props
                /\ pkt \o buffer = RemoveGarbage(last.buffer \o last.bytes)

(***************************************************************************)
(* Synchronous calls next to the deframer: a port is opened, the device    *)
(* sends frames that readData takes in pieces, and commands are sent       *)
(* synchronously while bytes wait on the port or in the buffer.            *)
(***************************************************************************)
NextSync ==
    \/ m_serial = "NULL" /\ setSerialPort(TRUE, TRUE, <<>>, <<>>, <<>>)
    \/ \E mode \in { "TransparentMode", "API1Mode" } :
         nFrames = 0 /\ m_serial # "NULL" /\ m_mode # mode /\ setMode(mode)
    \/ DeviceSends(ExampleFrame)
    \/ \E k \in 1..Len(wire) : \E t \in ReadTypes(k) : readData(k, t)
    \/ \E r \in SyncReplies :
         MoreSyncIds /\ sendATCommandSync(Cmd("AP", <<>>), r)

SpecSync == Init /\ [][NextSync]_vars

(***************************************************************************)
(* C14.  The signals of the port are blocked only inside a                 *)
(* sendATCommandSync call: they are unblocked again when the call returns, *)
(* with or without a response, and readData does not run during the call,  *)
(* so the call leaves the buffer and the store as they were and gives no   *)
(* packet to processPacket.                                                *)
(***************************************************************************)
C14_QuiescedDuringSync ==
    /\ ~signalsBlocked
    /\ (op = "sendATCommandSync" /\ m_serial # "NULL")
       => /\ ~aborted
          /\ buffer = last.buffer /\ props = last.props
          /\ dispatched = <<>> /\ emitted = <<>>

\* A call on an open port whose readyRead() is connected, with part of a
\* frame in the buffer: the call read the reply and the buffer is as it was.
C14_ReplyReadByCall ==
    /\ op = "sendATCommandSync" /\ isOpen /\ readyReadConnected
    /\ buffer # <<>> /\ buffer = last.buffer
    /\ ~ret.rep.null /\ ret.rep.packet = last.bytes
    /\ ~signalsBlocked

(***************************************************************************)
(* C15.  startupCheck returns true if and only if the mode step and the    *)
(* hardware-revision step both succeeded.  The mode step fails when the AP *)
(* query has no response, a failure status or an undecodable value, or     *)
(* when the corrective command fails, and a passing hardware-revision step *)
(* does not make up for it; the hardware-revision step fails when the HV   *)
(* query has no response, a failure status or an undecodable value, and    *)
(* then the result is false.                                               *)
(***************************************************************************)
C15_ResultIsConjunction ==
    (op = "setSerialPort" /\ hs.ran)
    => /\ hs.result <=> (hs.modeStep /\ hs.hvStep)
       /\ hs.modeStep <=> /\ hs.apOk
                          /\ hs.apValue # -1
                          /\ hs.apValue = 1 \/ hs.setOk
       /\ hs.hvStep => (hs.hvOk /\ hs.hvValue # -1)

\* The AP query failed, the hardware-revision step passed, and the handshake
\* failed.
C15_ModeFailureKept ==
    /\ op = "setSerialPort" /\ hs.ran
    /\ ~hs.apOk /\ ~hs.modeStep
    /\ hs.hvStep /\ hs.hvValue = XBeeSerie1
    /\ ~hs.result

(***************************************************************************)
(* C16.  For a dispatched AT command response with status Ok for a numeric *)
(* addressing property, whose payload does not convert to an int, the      *)
(* stored value of that property is what it was before.                    *)
(***************************************************************************)
C16_FailedConversionKeepsValue ==
    (ATDispatched /\ commandStatus(dispatched[1]) = StatusOk
        /\ atCommand(dispatched[1]) \in NumericProps
        /\ ~toInt(toHex(data(dispatched[1]))).ok)
    => props[atCommand(dispatched[1])] = last.props[atCommand(dispatched[1])]

(***************************************************************************)
(* C17.  For a dispatched AT command response whose command is not one of  *)
(* the 15 addressing properties (ND included), every stored property is    *)
(* unchanged, no property-changed signal is emitted, and                   *)
(* receivedATCommandResponse is emitted exactly once.                      *)
(***************************************************************************)
C17_OtherCommandsOnlyAnnounced ==
    (ATDispatched /\ atCommand(dispatched[1]) \notin AddressingProps)
    => /\ props = last.props
       /\ Count("Changed") = 0
       /\ Count("receivedATCommandResponse") = 1
       /\ Len(emitted) = 1

\* A node-discovery response arrived after DH was loaded: the store is as it
\* was and only receivedATCommandResponse was emitted.
C17_NodeDiscoveryAnnounced ==
    /\ ATDispatched /\ atCommand(dispatched[1]) = "ND"
    /\ data(dispatched[1]) # <<>>
    /\ last.props["DH"] # 0 /\ props = last.props
    /\ emitted = << Event("receivedATCommandResponse", dispatched[1]) >>

(***************************************************************************)
(* C18.  In API mode, when after a delivery the buffer, from its first     *)
(* 0x7E on, holds at least 3 bytes: if it holds at least lenLow+4 bytes    *)
(* (lenLow the byte at offset 2, 0..255), the first lenLow+4 bytes are     *)
(* given to processPacket and removed and the bytes behind them are kept;  *)
(* if it holds fewer, nothing is dispatched and nothing is removed.        *)
(***************************************************************************)
C18_LengthRule ==
    (op = "readData" /\ m_mode = "API1Mode"
        /\ HasMarker(last.buffer \o last.bytes)
        /\ Len(FromMarker(last.buffer \o last.bytes)) >= 3)
    => LET acc == FromMarker(last.buffer \o last.bytes)
           n == acc[3] + 4
       IN IF Len(acc) >= n
          THEN /\ ~aborted
               /\ dispatched = << SubSeq(acc, 1, n) >>
               /\ buffer = SubSeq(acc, n + 1, Len(acc))
          ELSE /\ dispatched = <<>>
               /\ buffer = acc

\* b starts with a frame that is completely present.
CompleteFrameAtHead(b) ==
    /\ Len(b) >= 3
    /\ b[1] = StartDelimiter
    /\ Len(b) >= b[3] + 4

(***************************************************************************)
(* C19.  In API mode every frame that a delivery completes is dispatched   *)
(* by that delivery, first-arrived first: the packets dispatched are the   *)
(* head of what was in the buffer, in order, and after the delivery the    *)
(* buffer does not start with a frame that is completely present.          *)
(***************************************************************************)
C19_AllCompleteFramesDispatched ==
    (op = "readData" /\ m_mode = "API1Mode" /\ ~aborted)
    => /\ ~CompleteFrameAtHead(buffer)
       /\ dispatched # <<>>
          => IsPrefix(dispatched[1], FromMarker(last.buffer \o last.bytes))

(***************************************************************************)
(* The property store and everything that could touch it: the handshake,   *)
(* the setters, loadAddressingProperties, asynchronous and synchronous     *)
(* commands, and DH responses that come in through readData.               *)
(***************************************************************************)
\* The value a setter is called with.
SetterArg(p) == IF p = "NI" THEN << 78 >> ELSE 7

DHReplies == Replies("DH", { << 18, 52 >> })

NextProps ==
    \/ \E openOk \in BOOLEAN : \E r1 \in APReplies, r3 \in HVReplies :
         m_serial = "NULL" /\ setSerialPort(TRUE, openOk, r1, <<>>, r3)
    \/ m_serial # "NULL" /\ m_mode # "API1Mode" /\ setMode("API1Mode")
    \/ \E openOk \in BOOLEAN : open(openOk)
    \/ close
    \/ DeviceSends(ATResponse(1, "DH", StatusOk, << 171, 205 >>))
    \/ \E t \in ReadTypes(Len(wire)) : readData(Len(wire), t)
    \/ \E q \in AddressingProps : MoreSyncIds /\ setProperty(q, SetterArg(q))
    \/ MoreSyncIds /\ loadAddressingProperties
    \/ MoreSyncIds /\ sendATCommandAsync(Cmd("DH", <<>>))
    \/ \E r \in DHReplies :
         MoreSyncIds /\ sendATCommandSync(Cmd("DH", <<>>), r)

SpecProps == Init /\ [][NextProps]_vars

(***************************************************************************)
(* C20.  The stored addressing properties change only when readData        *)
(* dispatches an AT command response: the setters,                         *)
(* loadAddressingProperties, sendATCommandAsync, sendATCommandSync         *)
(* (whatever it reads) and the handshake leave every stored property as it *)
(* was and emit no property-changed signal.                                *)
(***************************************************************************)
C20_StoreChangesOnlyOnResponse ==
    [][/\ props' # props => ATDispatched'
       /\ op' \in { "set", "loadAddressingProperties", "sendATCommandAsync",
                     "sendATCommandSync", "setSerialPort" }
          => (props' = props /\ Count("Changed")' = 0)]_vars

\* setDH(7) was written to the port while the store holds the DH value that
\* a response loaded earlier.
C20_SetterLeftStore ==
    /\ op = "set" /\ ~aborted
    /\ written = << Cmd("DH", number(7)) >>
    /\ props["DH"] = 43981

(***************************************************************************)
(* C21.  In API mode every packet that readData gives to processPacket has *)
(* at least 4 bytes, so that the read of the type at offset 3 (line 549)   *)
(* is inside the packet.                                                   *)
(***************************************************************************)
C21_PacketHasTypeByte ==
    (op = "readData" /\ m_mode = "API1Mode")
    => /\ \A i \in 1..Len(dispatched) : Len(dispatched[i]) >= 4
       /\ ~aborted

(***************************************************************************)
(* The port of a driver over its life: it is made by the constructor or by *)
(* setSerialPort, set again, closed and opened, while the device sends    *)
(* frames that readData takes when readyRead() reaches it.                 *)
(***************************************************************************)
NextPort ==
    \/ \E openOk \in BOOLEAN : XBeeWithPort(openOk, <<>>, <<>>, <<>>)
    \/ \E cfgOk, openOk \in BOOLEAN :
         MoreSyncIds /\ setSerialPort(cfgOk, openOk, <<>>, <<>>, <<>>)
    \/ \E openOk \in BOOLEAN : open(openOk)
    \/ close
    \/ \E mode \in { "TransparentMode", "API1Mode" } :
         nFrames = 0 /\ m_serial # "NULL" /\ m_mode # mode /\ setMode(mode)
    \/ DeviceSends(ExampleFrame)
    \/ \E k \in 1..Len(wire) : \E t \in ReadTypes(k) : readData(k, t)
    \/ MoreSyncIds /\ m_serial # "NULL"
         /\ sendATCommandAsync(Cmd("DH", <<>>))

SpecPort == Init /\ [][NextPort]_vars

(***************************************************************************)
(* C22.  Whenever the driver holds an open port, readyRead() of the port   *)
(* is connected to readData and not blocked, so that the bytes that arrive *)
(* reach the deframer; this holds after the constructor and after every    *)
(* setSerialPort call, also one on a driver that already had a port.       *)
(***************************************************************************)
C22_OpenPortFeedsDeframer ==
    (m_serial # "NULL" /\ isOpen)
    => SlotRuns(readyReadConnected, signalsBlocked)

(***************************************************************************)
(* The handshake and the traffic after it: the port is made and opened     *)
(* with a handshake that passes or fails, startupCheck is called again,    *)
(* the port is closed and opened, and commands are sent asynchronously.    *)
(***************************************************************************)
GateAPReplies == { <<>>, ATResponse(1, "AP", StatusOk, << 1 >>),
                   ATResponse(1, "AP", StatusError, <<>>) }
GateHVReplies == { <<>>, ATResponse(1, "HV", StatusOk, << XBeeSerie1 >>) }

NextGate ==
    \/ \E openOk \in BOOLEAN : \E r1 \in GateAPReplies, r3 \in GateHVReplies :
         XBeeWithPort(openOk, r1, <<>>, r3)
    \/ \E cfgOk, openOk \in BOOLEAN :
         \E r1 \in GateAPReplies, r3 \in GateHVReplies :
           MoreSyncIds /\ setSerialPort(cfgOk, openOk, r1, <<>>, r3)
    \/ \E r1 \in GateAPReplies, r3 \in GateHVReplies :
         MoreSyncIds /\ startupCheckCall(r1, <<>>, r3)
    \/ \E openOk \in BOOLEAN : open(openOk)
    \/ close
    \/ MoreSyncIds /\ sendATCommandAsync(Cmd("DH", <<>>))

SpecGate == Init /\ [][NextGate]_vars

\* The operations that run initSerialConnection.
PortOps == { "setSerialPort", "XBee(serialPort)" }

(***************************************************************************)
(* C23.  The handshake gates nothing.  When the port opens,                *)
(* initSerialConnection sets the connected flag and returns true whatever  *)
(* startupCheck returned, and a sendATCommandAsync call that follows a     *)
(* failed handshake on the open port writes its command.  The connected    *)
(* flag is set only by initSerialConnection opening the port, and          *)
(* startupCheck sends no command while the flag is unset.                  *)
(***************************************************************************)
C23_HandshakeGatesNothing ==
    [][/\ (op' \in PortOps /\ isOpen')
          => (xbeeFound' /\ (op' = "setSerialPort" => ret'.bRet))
       /\ (op \in PortOps /\ hs.ran /\ ~hs.result /\ isOpen /\ ~aborted
              /\ op' = "sendATCommandAsync")
          => written' = << Cmd("DH", <<>>) >>
       /\ (xbeeFound' /\ ~xbeeFound) => (op' \in PortOps /\ isOpen')
       /\ (op' = "startupCheck" /\ ~xbeeFound)
          => (written' = <<>> /\ assigned' = <<>>)]_vars

\* setSerialPort opened the port, the handshake failed, and the call set the
\* connected flag and returned true.
C23_FailedHandshakeConnected ==
    /\ op = "setSerialPort" /\ isOpen
    /\ hs.ran /\ ~hs.result
    /\ xbeeFound /\ ret.bRet

====
